---- MODULE Spec2Model ----
(***************************************************************************)
(* bigd: a fixed-width pool of digest goroutines fed by one feeder         *)
(* goroutine over an unbuffered channel, publishing results on an          *)
(* unbuffered channel that a closer goroutine closes after wg.Wait(),      *)
(* with a done channel for cancellation and a one-slot error channel.      *)
(* Model of src/main.go: digest, funnel and the cancellation and consumer  *)
(* parts of main. The file holds the program twice (lines 1-225 and        *)
(* 227-390); the two copies agree on everything modelled here.             *)
(***************************************************************************)
EXTENDS Integers, Sequences, FiniteSets, TLC

\* ------------------------------------------------------------------ bounds
MaxItems == 2      \* the enumeration holds 0..MaxItems files
MaxWidth == 2      \* the pool is run with width in 1..MaxWidth
MaxSignals == 2    \* system signals delivered during one run

\* --------------------------------------------------------------- constants
ErrcCap == 1       \* errc := make(chan error, 1)
Dir == "testdata"  \* gzFilesInfoIn("./testdata/")
Nil == "nil"
NoResult == [path |-> <<>>, data |-> <<>>, err |-> Nil]

VARIABLES
    fsi,       \* fsi.fsi: the enumerated file names, in ReadDir order
    corrupt,   \* the file names whose open/gunzip/read fails
    width,     \* const width (16 in the source; here any of 1..MaxWidth)
    done,      \* the done channel: "open" or "closed"
    paths,     \* the paths channel (unbuffered): "open" or "closed"
    c,         \* the result channel (unbuffered): "open" or "closed"
    errc,      \* the buffer of the error channel
    wg,        \* the sync.WaitGroup counter
    ctlpc,     \* position of funnel's outer goroutine
    ci,        \* its loop variable i
    fpc,       \* position of the feeder goroutine
    fi,        \* index in fsi.fsi of the feeder's current range element
    wpc,       \* position of each digest goroutine
    wr,        \* each digest goroutine's local r
    clpc,      \* position of the closer goroutine
    mpc,       \* position of main
    mr,        \* main's loop variable r
    proc,      \* the process: "running", "exited", "returned" or a panic
    sigs,      \* signals delivered so far
    taken,     \* history: <<worker, path>> for every receive from paths
    received,  \* history: the results main received from rs, in order
    skipped,   \* history: indexes whose offer took the done branch
    reports,   \* history: number of completed sends on errc
    abandoned, \* history: paths whose result took the done branch in digest
    closes,    \* history: number of close(c) executed
    via        \* history: how each digest call returned

vars == <<fsi, corrupt, width, done, paths, c, errc, wg, ctlpc, ci, fpc, fi,
          wpc, wr, clpc, mpc, mr, proc, sigs, taken, received, skipped,
          reports, abandoned, closes, via>>

chans == <<done, paths, c, errc>>
hist == <<taken, received, skipped, reports, abandoned, closes, via>>
env == <<fsi, corrupt, width>>

Workers == 0..MaxWidth

\* ------------------------------------------------------------ pure helpers
Names(n) == [k \in 1..n |-> k]

\* path.Join(fsi.dir, v.Name())
PathJoin(dir, name) == <<dir, name>>

\* the payload a readable gzip file decompresses to
Content(p) == <<"data", p[2]>>

\* the anonymous func of digest: open, gzip.NewReader, ReadAll
Transform(r) ==
    IF r.path[2] \in corrupt
    THEN [r EXCEPT !.err = "failed"]
    ELSE [r EXCEPT !.data = Content(r.path)]

\* for i := 0; i < width; i++
LoopCondOffByOne(i) == i <= width
LoopCond(i) == i < width

\* wg.Add(width)
AddCountTooMany == width + 1
AddCount == width

\* wg.Wait() returns when the counter is zero
WaitReturnsEarly == TRUE
WaitReturns == wg = 0

\* for _, v := range fsi.fsi: the feeder's position at element i
FeederAtDropsLast(i) == IF i >= Len(fsi) THEN "close" ELSE "select"
FeederAt(i) == IF i > Len(fsi) THEN "close" ELSE "select"

\* for _, v := range fsi.fsi: the element of iteration i
ElementReversed(i) == fsi[Len(fsi) + 1 - i]
Element(i) == fsi[i]

\* the range advances to the next element after a completed iteration
NextIndexRepeats(i) == i
NextIndex(i) == i + 1

\* digest's loop continues after a published result, whatever r.err is
AfterPublishStopsOnErr(r) == IF r.err # Nil THEN "exit" ELSE "range"
AfterPublish(r) == "range"

\* case err := <-errc: fmt.Fprintln(os.Stderr, err); os.Exit(1)
OnErrCarriesOn == "running"
OnErr == "exited"

\* case <-done: a receive from done is ready exactly when done is closed
DoneReadyNever == FALSE
DoneReadyAlways == TRUE
DoneReady == done = "closed"

Running == proc = "running"

Panics == {"panic: close of closed done", "panic: close of closed paths",
           "panic: close of closed c", "panic: send on closed c",
           "panic: negative WaitGroup counter"}

\* ------------------------------------------------------------------- Init
Init ==
    /\ \E n \in 0..MaxItems : fsi = Names(n)
    /\ corrupt \in SUBSET {fsi[k] : k \in DOMAIN fsi}
    /\ width \in 1..MaxWidth
    /\ done = "open"
    /\ paths = "open"
    /\ c = "open"
    /\ errc = <<>>
    /\ wg = 0
    /\ ctlpc = "goFeeder"
    /\ ci = 0
    /\ fpc = "none"
    /\ fi = 1
    /\ wpc = [w \in Workers |-> "none"]
    /\ wr = [w \in Workers |-> NoResult]
    /\ clpc = "none"
    /\ mpc = "range"
    /\ mr = NoResult
    /\ proc = "running"
    /\ sigs = 0
    /\ taken = <<>>
    /\ received = <<>>
    /\ skipped = {}
    /\ reports = 0
    /\ abandoned = {}
    /\ closes = 0
    /\ via = [w \in Workers |-> "none"]

\* ------------------------------------------------- funnel's outer goroutine
\* go func() { for _, v := range fsi.fsi ... }()
CtlGoFeeder ==
    /\ Running
    /\ ctlpc = "goFeeder"
    /\ ctlpc' = "wgAdd"
    /\ fpc' = FeederAt(1)
    /\ fi' = 1
    /\ UNCHANGED <<env, chans, wg, ci, wpc, wr, clpc, mpc, mr, proc, sigs, hist>>

\* wg.Add(width)
CtlWgAdd ==
    /\ Running
    /\ ctlpc = "wgAdd"
    /\ wg' = wg + AddCount
    /\ ci' = 0
    /\ ctlpc' = "goDigest"
    /\ UNCHANGED <<env, chans, fpc, fi, wpc, wr, clpc, mpc, mr, proc, sigs, hist>>

\* one iteration of the spawn loop: go func() { digest(...); wg.Done() }()
CtlGoDigest ==
    /\ Running
    /\ ctlpc = "goDigest"
    /\ LoopCond(ci)
    /\ wpc' = [wpc EXCEPT ![ci] = "range"]
    /\ ci' = ci + 1
    /\ ctlpc' = IF LoopCond(ci + 1) THEN "goDigest" ELSE "goCloser"
    /\ UNCHANGED <<env, chans, wg, fpc, fi, wr, clpc, mpc, mr, proc, sigs, hist>>

\* go func() { wg.Wait(); close(c) }()
CtlGoCloser ==
    /\ Running
    /\ ctlpc = "goCloser"
    /\ clpc' = "wait"
    /\ ctlpc' = "end"
    /\ UNCHANGED <<env, chans, wg, ci, fpc, fi, wpc, wr, mpc, mr, proc, sigs, hist>>

Ctl == CtlGoFeeder \/ CtlWgAdd \/ CtlGoDigest \/ CtlGoCloser

\* ----------------------------------------------------------- the feeder
\* case paths <- path.Join(fsi.dir, v.Name()): worker w is the receiver of
\* the rendezvous (for p := range paths; r := result{path: p})
FeederSend(w) ==
    /\ Running
    /\ fpc = "select"
    /\ paths = "open"
    /\ wpc[w] = "range"
    /\ LET p == PathJoin(Dir, Element(fi)) IN
        /\ wr' = [wr EXCEPT ![w] = [path |-> p, data |-> <<>>, err |-> Nil]]
        /\ taken' = Append(taken, <<w, p>>)
    /\ wpc' = [wpc EXCEPT ![w] = "transform"]
    /\ fi' = NextIndex(fi)
    /\ fpc' = FeederAt(NextIndex(fi))
    /\ UNCHANGED <<env, chans, wg, ctlpc, ci, clpc, mpc, mr, proc, sigs,
                   received, skipped, reports, abandoned, closes, via>>

\* case <-done: taken, the send on errc is still to come
FeederDone ==
    /\ Running
    /\ fpc = "select"
    /\ DoneReady
    /\ fpc' = "report"
    /\ skipped' = skipped \cup {fi}
    /\ UNCHANGED <<env, chans, wg, ctlpc, ci, fi, wpc, wr, clpc, mpc, mr, proc,
                   sigs, taken, received, reports, abandoned, closes, via>>

\* errc <- errors.New("canceled"): blocks while the buffer is full; the loop
\* then goes on with the next element
FeederReport ==
    /\ Running
    /\ fpc = "report"
    /\ Len(errc) < ErrcCap
    /\ errc' = Append(errc, "canceled")
    /\ reports' = reports + 1
    /\ fi' = NextIndex(fi)
    /\ fpc' = FeederAt(NextIndex(fi))
    /\ UNCHANGED <<env, done, paths, c, wg, ctlpc, ci, wpc, wr, clpc, mpc, mr,
                   proc, sigs, taken, received, skipped, abandoned, closes, via>>

\* close(paths)
FeederClose ==
    /\ Running
    /\ fpc = "close"
    /\ IF paths = "closed"
       THEN proc' = "panic: close of closed paths" /\ UNCHANGED paths
       ELSE paths' = "closed" /\ UNCHANGED proc
    /\ fpc' = "exit"
    /\ UNCHANGED <<env, done, c, errc, wg, ctlpc, ci, fi, wpc, wr, clpc, mpc, mr,
                   sigs, hist>>

Feeder == (\E w \in Workers : FeederSend(w)) \/ FeederDone \/ FeederReport
          \/ FeederClose

\* ----------------------------------------------------------------- digest
\* wg.Done(): a negative counter panics
WgDone ==
    IF wg = 0
    THEN proc' = "panic: negative WaitGroup counter" /\ UNCHANGED wg
    ELSE wg' = wg - 1 /\ UNCHANGED proc

\* for p := range paths ends: paths is closed; digest returns; wg.Done()
WorkerRangeEnd(w) ==
    /\ Running
    /\ wpc[w] = "range"
    /\ paths = "closed"
    /\ WgDone
    /\ wpc' = [wpc EXCEPT ![w] = "exit"]
    /\ via' = [via EXCEPT ![w] = "range"]
    /\ UNCHANGED <<env, chans, ctlpc, ci, fpc, fi, wr, clpc, mpc, mr,
                   sigs, taken, received, skipped, reports, abandoned, closes>>

\* the anonymous func and the optional sleep
WorkerTransform(w) ==
    /\ Running
    /\ wpc[w] = "transform"
    /\ wr' = [wr EXCEPT ![w] = Transform(wr[w])]
    /\ wpc' = [wpc EXCEPT ![w] = "publish"]
    /\ UNCHANGED <<env, chans, wg, ctlpc, ci, fpc, fi, clpc, mpc, mr, proc, sigs,
                   hist>>

\* case c <- r: main is the receiver of the rendezvous (for r := range rs);
\* a send on a closed channel panics
WorkerPublish(w) ==
    /\ Running
    /\ wpc[w] = "publish"
    /\ IF c = "closed"
       THEN /\ proc' = "panic: send on closed c"
            /\ UNCHANGED <<wpc, wr, mpc, mr, received>>
       ELSE /\ mpc = "range"
            /\ mr' = wr[w]
            /\ mpc' = "check"
            /\ received' = Append(received, wr[w])
            /\ wpc' = [wpc EXCEPT ![w] = AfterPublish(wr[w])]
            /\ wr' = [wr EXCEPT ![w] = NoResult]
            /\ UNCHANGED proc
    /\ UNCHANGED <<env, chans, wg, ctlpc, ci, fpc, fi, clpc, sigs, taken,
                   skipped, reports, abandoned, closes, via>>

\* case <-done: return; wg.Done()
WorkerAbandon(w) ==
    /\ Running
    /\ wpc[w] = "publish"
    /\ DoneReady
    /\ WgDone
    /\ wpc' = [wpc EXCEPT ![w] = "exit"]
    /\ wr' = [wr EXCEPT ![w] = NoResult]
    /\ abandoned' = abandoned \cup {wr[w].path}
    /\ via' = [via EXCEPT ![w] = "done"]
    /\ UNCHANGED <<env, chans, ctlpc, ci, fpc, fi, clpc, mpc, mr, sigs,
                   taken, received, skipped, reports, closes>>

Worker(w) == WorkerRangeEnd(w) \/ WorkerTransform(w) \/ WorkerPublish(w)
             \/ WorkerAbandon(w)

\* ------------------------------------------------------------- the closer
\* wg.Wait()
CloserWait ==
    /\ Running
    /\ clpc = "wait"
    /\ WaitReturns
    /\ clpc' = "close"
    /\ UNCHANGED <<env, chans, wg, ctlpc, ci, fpc, fi, wpc, wr, mpc, mr, proc,
                   sigs, hist>>

\* close(c)
CloserClose ==
    /\ Running
    /\ clpc = "close"
    /\ IF c = "closed"
       THEN proc' = "panic: close of closed c" /\ UNCHANGED c
       ELSE c' = "closed" /\ UNCHANGED proc
    /\ closes' = closes + 1
    /\ clpc' = "exit"
    /\ UNCHANGED <<env, done, paths, errc, wg, ctlpc, ci, fpc, fi, wpc, wr, mpc,
                   mr, sigs, taken, received, skipped, reports, abandoned, via>>

Closer == CloserWait \/ CloserClose

\* ------------------------------------------------------------------- main
\* for r := range rs ends: rs is closed
MainRangeEnd ==
    /\ Running
    /\ mpc = "range"
    /\ c = "closed"
    /\ mpc' = "deferred"
    /\ UNCHANGED <<env, chans, wg, ctlpc, ci, fpc, fi, wpc, wr, clpc, mr, proc,
                   sigs, hist>>

\* case err := <-errc: os.Exit(1)
MainCheckErr ==
    /\ Running
    /\ mpc = "check"
    /\ errc # <<>>
    /\ errc' = Tail(errc)
    /\ proc' = OnErr
    /\ mpc' = IF OnErr = "running" THEN "range" ELSE "exit"
    /\ UNCHANGED <<env, done, paths, c, wg, ctlpc, ci, fpc, fi, wpc, wr, clpc, mr,
                   sigs, hist>>

\* default: fmt.Println(r.path, r.data, r.err)
MainCheckDefault ==
    /\ Running
    /\ mpc = "check"
    /\ errc = <<>>
    /\ mpc' = "range"
    /\ UNCHANGED <<env, chans, wg, ctlpc, ci, fpc, fi, wpc, wr, clpc, mr, proc,
                   sigs, hist>>

\* defer close(done), run when main returns
MainDeferred ==
    /\ Running
    /\ mpc = "deferred"
    /\ IF done = "closed"
       THEN proc' = "panic: close of closed done" /\ UNCHANGED done
       ELSE done' = "closed" /\ UNCHANGED proc
    /\ mpc' = "return"
    /\ UNCHANGED <<env, paths, c, errc, wg, ctlpc, ci, fpc, fi, wpc, wr, clpc, mr,
                   sigs, hist>>

\* main has returned: the process ends, whatever the goroutines are doing
MainReturn ==
    /\ Running
    /\ mpc = "return"
    /\ proc' = "returned"
    /\ mpc' = "exit"
    /\ UNCHANGED <<env, chans, wg, ctlpc, ci, fpc, fi, wpc, wr, clpc, mr, sigs,
                   hist>>

Main == MainRangeEnd \/ MainCheckErr \/ MainCheckDefault \/ MainDeferred
        \/ MainReturn

\* ------------------------------------------------------------ the signal
\* sm.Set(func(sm *sigmon.SignalMonitor) { close(done) }) runs on a signal
Signal ==
    /\ Running
    /\ sigs < MaxSignals
    /\ sigs' = sigs + 1
    /\ IF done = "closed"
       THEN proc' = "panic: close of closed done" /\ UNCHANGED done
       ELSE done' = "closed" /\ UNCHANGED proc
    /\ UNCHANGED <<env, paths, c, errc, wg, ctlpc, ci, fpc, fi, wpc, wr, clpc,
                   mpc, mr, hist>>

Next == Ctl \/ Feeder \/ (\E w \in Workers : Worker(w)) \/ Closer \/ Main
        \/ Signal

Spec == Init /\ [][Next]_vars

\* every goroutine that can take a step eventually takes one; signals are
\* under no obligation to arrive
FairSpec ==
    /\ Init
    /\ [][Next]_vars
    /\ WF_vars(Ctl)
    /\ WF_vars(Feeder)
    /\ \A w \in Workers : WF_vars(Worker(w))
    /\ WF_vars(Closer)
    /\ WF_vars(Main)

\* as FairSpec, but main is under no obligation to go on reading rs
FairSpecIdleConsumer ==
    /\ Init
    /\ [][Next]_vars
    /\ WF_vars(Ctl)
    /\ WF_vars(Feeder)
    /\ \A w \in Workers : WF_vars(Worker(w))
    /\ WF_vars(Closer)

TypeOK ==
    /\ done \in {"open", "closed"} /\ paths \in {"open", "closed"}
    /\ c \in {"open", "closed"} /\ Len(errc) <= ErrcCap
    /\ wg \in 0..(MaxWidth + 1)
    /\ fpc \in {"none", "select", "report", "close", "exit"}
    /\ \A w \in Workers :
        wpc[w] \in {"none", "range", "transform", "publish", "exit"}
    /\ clpc \in {"none", "wait", "close", "exit"}
    /\ mpc \in {"range", "check", "deferred", "return", "exit"}
    /\ proc \in {"running", "exited", "returned"} \cup Panics

\* ------------------------------------------------------------- properties
Enumerated == {PathJoin(Dir, fsi[k]) : k \in DOMAIN fsi}
ReceivedPaths == {received[k].path : k \in DOMAIN received}
TakenPaths == {taken[k][2] : k \in DOMAIN taken}
Pool == 0..(width - 1)
Signaled == sigs > 0

\* items received from paths whose result was neither delivered nor abandoned
InFlight == {k \in DOMAIN taken : taken[k][2] \notin ReceivedPaths \cup abandoned}

\* the Closed state of the pipeline: every digest goroutine is gone and c is
\* closed
PipelineClosed == c = "closed" /\ \A w \in Pool : wpc[w] = "exit"

\* C1 (P1 completeness): while no signal has arrived, once c is closed main
\* has received exactly one result per enumerated file and no result for
\* anything else.
P1_Completeness ==
    (c = "closed" /\ ~Signaled) =>
        /\ Len(received) = Len(fsi)
        /\ ReceivedPaths \subseteq Enumerated
        /\ \A p \in Enumerated :
            Cardinality({k \in DOMAIN received : received[k].path = p}) = 1

P1_Witness ==
    /\ c = "closed" /\ ~Signaled
    /\ Len(fsi) >= 2 /\ Len(received) = Len(fsi)
    /\ received[1].path # PathJoin(Dir, fsi[1])

\* C2 (P3 closure-once): close(c) runs at most once, c is closed only by it,
\* and from the moment wg.Wait() has returned the counter is zero and every
\* digest goroutine of the pool has returned, so none can still publish.
P3_ClosureOnce ==
    /\ closes <= 1
    /\ (c = "closed") <=> (closes = 1)
    /\ clpc \in {"close", "exit"} =>
        /\ wg = 0
        /\ \A w \in Pool : wpc[w] = "exit"
    /\ proc \notin {"panic: send on closed c", "panic: close of closed c"}

P3_Witness ==
    /\ c = "closed"
    /\ \E w \in Pool : via[w] = "done"
    /\ \E w \in Pool : via[w] = "range"

\* C3 (P4 cancellation bounds shutdown): in every fair run, once done is
\* closed the pipeline eventually is Closed (a run the process ends first,
\* by os.Exit, return or panic, is not held against the claim).
P4_CancelBoundsShutdown ==
    (done = "closed") ~> (PipelineClosed \/ ~Running)

\* C4 (P6 idempotent cancellation): no run closes the done channel when it
\* is already closed.
P6_IdempotentCancel == proc # "panic: close of closed done"

\* C5 (P2 bounded concurrency): at most width items are taken and not yet
\* published or abandoned, and no digest goroutine holds two of them.
P2_BoundedConcurrency ==
    /\ Cardinality(InFlight) <= width
    /\ \A w \in Workers : Cardinality({k \in InFlight : taken[k][1] = w}) <= 1

P2_Witness == width >= 2 /\ Cardinality(InFlight) = width

\* C6 (P5 isolation of failures): a digest goroutine stops only because
\* paths is closed or done is closed, never because of r.err; errc is
\* written only after a signal; and without a signal, once c is closed every
\* file, failed or not, has its result, carrying an error exactly for the
\* files that fail.
P5_FailureIsolation ==
    /\ \A w \in Workers : wpc[w] = "exit" =>
        \/ via[w] = "range" /\ paths = "closed"
        \/ via[w] = "done" /\ done = "closed"
    /\ (reports > 0 \/ errc # <<>>) => Signaled
    /\ (c = "closed" /\ ~Signaled) =>
        /\ Enumerated \subseteq ReceivedPaths
        /\ \A k \in DOMAIN received :
            (received[k].err # Nil) <=> (received[k].path[2] \in corrupt)

P5_Witness ==
    /\ c = "closed" /\ ~Signaled /\ width = 1
    /\ Len(received) >= 2
    /\ received[1].err # Nil /\ received[2].err = Nil

\* C7 (termination without cancellation): in every fair run in which no
\* signal arrives, paths gets closed, every digest goroutine of the pool
\* returns because its range over paths ended, and c is closed.
TerminatesQuietly ==
    <>(Signaled \/ (/\ paths = "closed"
                    /\ c = "closed"
                    /\ \A w \in Pool : wpc[w] = "exit" /\ via[w] = "range"))

TerminatesQuietly_Witness ==
    /\ ~Signaled /\ c = "closed"
    /\ Len(fsi) = 1 /\ width > Len(fsi)
    /\ Len(received) = 1
    /\ \A w \in Pool : via[w] = "range"

\* C8 (empty enumeration): with no file enumerated, main receives nothing,
\* nothing is ever sent on errc, and c gets closed, whatever signals arrive.
EmptyEnumeration ==
    (Len(fsi) = 0) =>
        /\ [](received = <<>> /\ reports = 0 /\ errc = <<>>)
        /\ <>(c = "closed")

\* C9 (exactly-once delivery under cancellation): in every run no path is
\* received from paths twice, no path is in two received results, and the
\* received results are for enumerated, taken files, at most Len(fsi) of them.
ExactlyOnce ==
    /\ \A i, j \in DOMAIN taken : taken[i][2] = taken[j][2] => i = j
    /\ \A i, j \in DOMAIN received :
        received[i].path = received[j].path => i = j
    /\ ReceivedPaths \subseteq TakenPaths
    /\ TakenPaths \subseteq Enumerated
    /\ Len(received) <= Len(fsi)

ExactlyOnce_Witness ==
    /\ Signaled /\ c = "closed"
    /\ Len(received) >= 1 /\ Len(received) < Len(fsi)
    /\ abandoned # {}

\* C10 (feeder stops on cancellation): once an offer took the done branch
\* no later file is handed to a digest goroutine, so the files taken are a
\* prefix of the enumeration.
FeederStopsOnCancel ==
    \A k \in DOMAIN taken : \A j \in skipped : taken[k][2][2] < fsi[j]

\* C11 (no feeder leak): in every fair run, once done is closed the feeder
\* goroutine eventually has closed paths and returned (a run the process ends
\* first is not held against the claim).
NoFeederLeak ==
    (done = "closed") ~> (fpc = "exit" \/ ~Running)

\* C12 (exactly one pipeline-level report): the feeder goes to send on errc
\* at most once in a run, and once a preempted offer has been dealt with
\* exactly one report has been made.
ExactlyOneReport ==
    /\ Cardinality(skipped) <= 1
    /\ reports <= 1
    /\ (skipped # {} /\ fpc # "report") => reports = 1

\* C13 (non-blocking ErrorReport): no goroutine is ever suspended on a send
\* to errc: the feeder is never at its send with the one slot already full.
NonBlockingReport ==
    ~(Running /\ fpc = "report" /\ Len(errc) >= ErrcCap)

\* C14 (no new work after cancellation): once done is closed no digest
\* goroutine receives another path.
NoNewWorkAfterCancel ==
    [][done = "closed" => taken' = taken]_vars

\* C15 (publish never hangs after cancellation): no digest goroutine stays
\* for ever in its publish select with done closed while the process runs:
\* it always leaves the select again, in every run that is fair to the
\* goroutines, even if main never receives from rs again.
PublishNeverHangs ==
    \A w \in Workers :
        []<>~(Running /\ wpc[w] = "publish" /\ done = "closed")

PublishNeverHangs_Witness ==
    /\ Running /\ done = "closed"
    /\ mpc = "check"
    /\ \E w \in Pool : wpc[w] = "publish"

\* position of a path in the enumeration, position of its receive from paths
\* in the take history, and the digest goroutine that received it
IndexOf(p) == CHOOSE k \in DOMAIN fsi : PathJoin(Dir, fsi[k]) = p
TakePos(p) == CHOOSE k \in DOMAIN taken : taken[k][2] = p
Owner(p) == taken[TakePos(p)][1]

\* C16 (ordering): the paths received from paths come in strictly increasing
\* enumeration index, and two results of one digest goroutine are received
\* by main in the order in which that goroutine took their paths.
Ordering ==
    /\ \A i, j \in DOMAIN taken :
        i < j => IndexOf(taken[i][2]) < IndexOf(taken[j][2])
    /\ \A i, j \in DOMAIN received :
        (i < j /\ Owner(received[i].path) = Owner(received[j].path)) =>
            TakePos(received[i].path) < TakePos(received[j].path)

Ordering_Witness ==
    /\ width >= 2 /\ Len(received) >= 2
    /\ Owner(received[1].path) = Owner(received[2].path)
    /\ \E w \in Pool : wpc[w] = "range"

\* main's loop over rs has ended because rs was closed
LoopEnded == mpc \in {"deferred", "return"} \/ proc = "returned"

\* C17 (missed-report hazard): main reads errc only inside the loop, and a
\* read ends the process; so whenever the loop has ended on the closed rs,
\* every report the feeder made is still sitting in errc, never observed.
\* The witness is a run in which that happens after main did receive and
\* check.
MissedReport ==
    (LoopEnded /\ reports > 0) => (errc = <<"canceled">> /\ proc # "exited")

MissedReport_Witness ==
    /\ mpc = "deferred" /\ c = "closed"
    /\ errc = <<"canceled">>
    /\ Len(received) >= 1

\* C18 (intake closure): paths is never closed twice; it is closed only once
\* the feeder has made its offer for every enumerated file and is gone, so
\* the feeder is never at a send with paths closed; after the close no
\* digest goroutine receives another path, and none stays for ever waiting
\* on the closed paths while the process runs: each one returns.
IntakeClosure ==
    /\ [](/\ proc # "panic: close of closed paths"
          /\ fpc \in {"select", "report", "close"} => paths = "open"
          /\ paths = "closed" =>
                /\ fpc = "exit"
                /\ \A k \in DOMAIN fsi :
                    PathJoin(Dir, fsi[k]) \in TakenPaths \/ k \in skipped)
    /\ [][paths = "closed" => taken' = taken]_vars
    /\ \A w \in Workers :
        []<>~(Running /\ wpc[w] = "range" /\ paths = "closed")

IntakeClosure_Witness ==
    /\ Running /\ paths = "closed"
    /\ taken # <<>> /\ skipped # {}
    /\ \E w \in Pool : wpc[w] = "range"
    /\ \E w \in Pool : wpc[w] = "publish"

\* C19 (results lost only by cancellation): a result is abandoned only with
\* done closed; no path is both delivered and abandoned, none is delivered
\* twice; and a taken path is without an outcome only while the goroutine
\* that took it still holds it, so once that goroutine is back at its range
\* or has returned the path has exactly one of the two outcomes.
LostOnlyByCancel ==
    /\ abandoned # {} => done = "closed"
    /\ abandoned \cap ReceivedPaths = {}
    /\ abandoned \subseteq TakenPaths
    /\ \A i, j \in DOMAIN received :
        received[i].path = received[j].path => i = j
    /\ \A k \in InFlight :
        /\ wpc[taken[k][1]] \in {"transform", "publish"}
        /\ wr[taken[k][1]].path = taken[k][2]

LostOnlyByCancel_Witness ==
    /\ PipelineClosed
    /\ abandoned # {} /\ received # <<>>
    /\ TakenPaths = abandoned \cup ReceivedPaths

\* C20 (quiescent teardown): while no signal has arrived, main is past its
\* loop only with c closed, paths closed, the feeder and every digest
\* goroutine returned, and done is closed only by main's deferred call; no
\* report was made and no result abandoned, before or after that close.
QuiescentTeardown ==
    ~Signaled =>
        /\ done = "closed" => mpc \in {"return", "exit"}
        /\ (mpc \in {"deferred", "return"} \/ proc = "returned") =>
            /\ c = "closed" /\ paths = "closed"
            /\ fpc = "exit"
            /\ \A w \in Pool : wpc[w] = "exit"
        /\ skipped = {} /\ reports = 0 /\ errc = <<>>
        /\ abandoned = {}

QuiescentTeardown_Witness ==
    /\ ~Signaled /\ done = "closed"
    /\ proc = "running" /\ mpc = "return"
    /\ Len(received) >= 2
====
